---- MODULE Spec2Model ----
\* A model of the rujs lexical analysis subsystem: the symbol trie
\* (src/lexical/symbols.rs) and the Lexer built on it (src/lexical/lexer.rs).
\*
\* Characters are modelled as one-element strings, a Vec<char> / String
\* as a sequence of characters.  Indices are 0-based as in the source, so
\* code[i] of the source is code[i + 1] here.  An Option<T> is a
\* sequence of at most one element: None == <<>>, Some(v) == <<v>>.
EXTENDS Integers, Sequences, FiniteSets, TLC

VARIABLES
    \* ---- Lexer (lexer.rs:14-18)
    code,           \* Lexer.code
    position,       \* Lexer.position
    current_char,   \* Lexer.current_char
    \* ---- what the caller of next_token() has observed, one record per call:
    \*      from  = Lexer.position when the call started
    \*      start = Lexer.position at the loop iteration that returned
    \*      end   = Lexer.position when the call returned
    \*      token = the returned Token
    returned,
    \* ---- one match_symbol call (symbols.rs:46-71)
    m_vocab,        \* the symbol list the trie (self) was built from
    m_code,         \* argument code
    m_start,        \* argument start
    m_boundary,     \* argument needs_boundary
    m_result,       \* the returned Option<(String, usize)>
    m_pc,           \* "call" before the call, "done" after it, "idle" when unused
    \* ---- the construction of one SymbolTrie (symbols.rs:13-32)
    t_root,         \* root of SymbolTrie::new, after the insertions made so far
    t_inserted,     \* the symbols inserted so far, in order
    \* ---- several Lexers over the three static tries (symbols.rs:74-94)
    s_tries,        \* the LazyLock of each static: its value once built, and the builds made
    s_lexers,       \* the Lexer instances
    s_outputs,      \* the tokens each instance has returned so far
    \* ---- one parse_program call (ast.rs:92-106)
    p_tokens,       \* argument tokens
    p_result,       \* the returned Program, or the panic, with the index steps made
    p_pc            \* "call" before the call, "done" after it, "idle" when unused

lexer_vars == <<code, position, current_char, returned>>
match_vars == <<m_vocab, m_code, m_start, m_boundary, m_result, m_pc>>
trie_vars == <<t_root, t_inserted>>
share_vars == <<s_tries, s_lexers, s_outputs>>
parse_vars == <<p_tokens, p_result, p_pc>>

vars == <<code, position, current_char, returned,
          m_vocab, m_code, m_start, m_boundary, m_result, m_pc,
          t_root, t_inserted,
          s_tries, s_lexers, s_outputs,
          p_tokens, p_result, p_pc>>

None == <<>>
Some(v) == <<v>>

\* ---------------------------------------------------------------------
\* Bounds of the model
\* ---------------------------------------------------------------------
\* longest enumerated input handed to match_symbol
MaxCode == 3
\* longest enumerated symbol list a trie is built from
MaxVocab == 2
\* longest enumerated Lexer input over the whole Alphabet
MaxLen == 3
\* longest enumerated Lexer input over the alphabet of one scanner
MaxClassLen == 4
\* next_token() calls made after the one that can first reach the end of input
ExtraCalls == 2
\* insert calls on one trie under construction
MaxInserts == 3
\* Lexer instances that share the static tries
NLexers == 2
\* longest enumerated input of a Lexer that shares the static tries
MaxShareLen == 1
\* most let statements in an enumerated well-formed token sequence
MaxStatements == 2
\* longest enumerated arbitrary token sequence handed to parse_program
MaxTokens == 3

\* ---------------------------------------------------------------------
\* Character classes (Rust std char predicates used by the source)
\* ---------------------------------------------------------------------
Whitespace == {" ", "\t", "\n"}

Letters ==
    {"a", "b", "c", "d", "e", "f", "g", "h", "i", "j", "k", "l", "m",
     "n", "o", "p", "q", "r", "s", "t", "u", "v", "w", "x", "y", "z",
     "C", "S", "V"}

Digits == {"0", "1", "2", "3", "4", "5", "9"}

\* characters of Unicode categories Nd/Nl/No that are neither alphabetic nor
\* radix-10 digits: char::is_numeric holds, char::is_digit(10) does not;
\* "1/2" stands for the single character U+00BD (vulgar fraction one half)
OtherNumeric == {"1/2"}

IsWhitespace(ch) == ch \in Whitespace

IsAlphabetic(ch) == ch \in Letters

\* a plausible slip: the dot that lex_number accepts also starts a number
IsDigit10_or_dot(ch) == ch \in Digits \cup {"."}

\* char::is_digit(10)
IsDigit10(ch) == ch \in Digits

IsNumeric(ch) == ch \in Digits \cup OtherNumeric

\* char::is_alphanumeric is is_alphabetic() || is_numeric()
IsAlphanumeric(ch) == IsAlphabetic(ch) \/ IsNumeric(ch)

\* ---------------------------------------------------------------------
\* symbols.rs : SymbolTrie
\* ---------------------------------------------------------------------
\* "abc" as the character sequence a symbol table entry denotes
DELIMITERS ==
    << <<"(">>, <<")">>, <<"{">>, <<"}">>, <<"[">>, <<"]">>, <<",">>, <<";">>, <<".">> >>

OPERATORS ==
    << <<"+">>, <<"-">>, <<"*">>, <<"*", "*">>, <<"/">>, <<"%">>, <<"=", "=">>,
       <<"!", "=">>, <<"<">>, <<"<", "=">>, <<">">>,
       <<">", "=">>, <<"&", "&">>, <<"|", "|">>, <<"!">>, <<"=">>, <<"+", "=">>,
       <<"-", "=">>, <<"*", "=">>, <<"/", "=">>, <<"%", "=">>,
       <<"=", "=", "=">>, <<".", ".", ".">> >>

KEYWORDS ==
    << <<"l","e","t">>, <<"c","o","n","s","t">>, <<"v","a","r">>, <<"i","f">>,
       <<"e","l","s","e">>, <<"f","o","r">>, <<"w","h","i","l","e">>, <<"d","o">>,
       <<"b","r","e","a","k">>,
       <<"c","o","n","t","i","n","u","e">>, <<"r","e","t","u","r","n">>,
       <<"f","u","n","c","t","i","o","n">>, <<"t","r","u","e">>,
       <<"f","a","l","s","e">>, <<"n","u","l","l">>,
       <<"u","n","d","e","f","i","n","e","d">>,
       <<"n","e","w">>, <<"t","h","i","s">>, <<"d","e","l","e","t","e">>,
       <<"t","y","p","e","o","f">>, <<"i","n">>,
       <<"i","n","s","t","a","n","c","e","o","f">>, <<"v","o","i","d">>,
       <<"c","a","t","c","h">>,
       <<"t","r","y">>, <<"f","i","n","a","l","l","y">>, <<"s","w","i","t","c","h">>,
       <<"c","a","s","e">>, <<"d","e","f","a","u","l","t">>, <<"t","h","r","o","w">>,
       <<"c","l","a","s","s">>, <<"e","x","t","e","n","d","s">>,
       <<"s","u","p","e","r">>, <<"i","m","p","o","r","t">>, <<"e","x","p","o","r","t">>,
       <<"f","r","o","m">>, <<"a","s">>, <<"a","w","a","i","t">>,
       <<"a","s","y","n","c">>, <<"y","i","e","l","d">> >>

\* SymbolTrie::new_empty : a node without children that ends no symbol
new_empty == [children |-> <<>>, is_last |-> FALSE]

\* a plausible slip: children.insert(ch, new_empty()) in place of
\* entry(ch).or_insert_with(new_empty), which replaces a child that exists
RECURSIVE insert_overwrite(_, _)
insert_overwrite(node, symbol) ==
    IF symbol = <<>>
    THEN [node EXCEPT !.is_last = TRUE]
    ELSE LET ch == Head(symbol)
         IN  [node EXCEPT !.children = (ch :> insert_overwrite(new_empty, Tail(symbol))) @@ @]

\* SymbolTrie::insert : walk/create one child per character, flag the last node
RECURSIVE insert(_, _)
insert(node, symbol) ==
    IF symbol = <<>>
    THEN [node EXCEPT !.is_last = TRUE]
    ELSE LET ch == Head(symbol)
             child == IF ch \in DOMAIN node.children
                      THEN node.children[ch]
                      ELSE new_empty
         IN  [node EXCEPT !.children = (ch :> insert(child, Tail(symbol))) @@ @]

\* the for &symbol in symbols loop of SymbolTrie::new
RECURSIVE insert_all(_, _)
insert_all(root, symbols) ==
    IF symbols = <<>> THEN root
    ELSE insert_all(insert(root, Head(symbols)), Tail(symbols))

\* SymbolTrie::new
new(symbols) == insert_all([children |-> <<>>, is_last |-> FALSE], symbols)

\* a plausible slip: only whitespace counts as a boundary
is_boundary_ws_only(ch) == IsWhitespace(ch)

\* SymbolTrie::is_boundary
is_boundary(ch) ==
    IsWhitespace(ch) \/ \E k \in DOMAIN DELIMITERS : DELIMITERS[k] = <<ch>>

\* a plausible slip: the walk returns at the first complete symbol
RECURSIVE match_loop_first(_, _, _, _, _, _)
match_loop_first(node, mcode, i, matched, last_match, needs_boundary) ==
    IF i >= Len(mcode) \/ last_match # None THEN last_match
    ELSE LET ch == mcode[i + 1] IN
         IF ch \in DOMAIN node.children
         THEN LET child == node.children[ch]
                  m2 == Append(matched, ch)
                  ok == child.is_last /\
                        (~needs_boundary \/ i + 1 >= Len(mcode) \/ is_boundary(mcode[i + 2]))
                  lm == IF ok THEN Some([text |-> m2, end |-> i + 1]) ELSE last_match
              IN  match_loop_first(child, mcode, i + 1, m2, lm, needs_boundary)
         ELSE last_match

\* a plausible slip: the end index counts from start, not from the input's first character
RECURSIVE match_loop_relative(_, _, _, _, _, _)
match_loop_relative(node, mcode, i, matched, last_match, needs_boundary) ==
    IF i >= Len(mcode) THEN last_match
    ELSE LET ch == mcode[i + 1] IN
         IF ch \in DOMAIN node.children
         THEN LET child == node.children[ch]
                  m2 == Append(matched, ch)
                  ok == child.is_last /\
                        (~needs_boundary \/ i + 1 >= Len(mcode) \/ is_boundary(mcode[i + 2]))
                  lm == IF ok THEN Some([text |-> m2, end |-> Len(m2)]) ELSE last_match
              IN  match_loop_relative(child, mcode, i + 1, m2, lm, needs_boundary)
         ELSE last_match

\* a plausible slip: the end is the index of the last matched character (i, not i + 1)
RECURSIVE match_loop_inclusive(_, _, _, _, _, _)
match_loop_inclusive(node, mcode, i, matched, last_match, needs_boundary) ==
    IF i >= Len(mcode) THEN last_match
    ELSE LET ch == mcode[i + 1] IN
         IF ch \in DOMAIN node.children
         THEN LET child == node.children[ch]
                  m2 == Append(matched, ch)
                  ok == child.is_last /\
                        (~needs_boundary \/ i + 1 >= Len(mcode) \/ is_boundary(mcode[i + 2]))
                  lm == IF ok THEN Some([text |-> m2, end |-> i]) ELSE last_match
              IN  match_loop_inclusive(child, mcode, i + 1, m2, lm, needs_boundary)
         ELSE last_match

\* a plausible slip: every node reached is recorded, complete symbol or not
RECURSIVE match_loop_any(_, _, _, _, _, _)
match_loop_any(node, mcode, i, matched, last_match, needs_boundary) ==
    IF i >= Len(mcode) THEN last_match
    ELSE LET ch == mcode[i + 1] IN
         IF ch \in DOMAIN node.children
         THEN LET child == node.children[ch]
                  m2 == Append(matched, ch)
                  ok == ~needs_boundary \/ i + 1 >= Len(mcode) \/ is_boundary(mcode[i + 2])
                  lm == IF ok THEN Some([text |-> m2, end |-> i + 1]) ELSE last_match
              IN  match_loop_any(child, mcode, i + 1, m2, lm, needs_boundary)
         ELSE last_match

\* the loop of SymbolTrie::match_symbol, one iteration per unfolding;
\* i is the index enumerate().skip(start) yields next
RECURSIVE match_loop(_, _, _, _, _, _)
match_loop(node, mcode, i, matched, last_match, needs_boundary) ==
    IF i >= Len(mcode) THEN last_match
    ELSE LET ch == mcode[i + 1] IN
         IF ch \in DOMAIN node.children
         THEN LET child == node.children[ch]
                  m2 == Append(matched, ch)
                  lm == IF child.is_last
                        THEN IF needs_boundary
                             THEN IF i + 1 >= Len(mcode) \/ is_boundary(mcode[i + 2])
                                  THEN Some([text |-> m2, end |-> i + 1])
                                  ELSE last_match
                             ELSE Some([text |-> m2, end |-> i + 1])
                        ELSE last_match
              IN  match_loop(child, mcode, i + 1, m2, lm, needs_boundary)
         ELSE last_match

\* SymbolTrie::match_symbol
match_symbol(self, mcode, start, needs_boundary) ==
    match_loop(self, mcode, start, <<>>, None, needs_boundary)

OPERATORS_TRIE == new(OPERATORS)
DELIMITERS_TRIE == new(DELIMITERS)
KEYWORDS_TRIE == new(KEYWORDS)

\* ---------------------------------------------------------------------
\* lexer.rs : Token and Lexer
\* ---------------------------------------------------------------------
\* enum Token; the text of EOF is unused
Token(kind, text) == [kind |-> kind, text |-> text]
EOF == [kind |-> "EOF", text |-> <<>>]

\* Lexer::new, on the character sequence of its &str argument
Lexer_new(chars) ==
    [code |-> chars,
     position |-> 0,
     current_char |-> IF 0 < Len(chars) THEN Some(chars[1]) ELSE None]

\* Lexer::advance
advance(lx) ==
    LET p == lx.position + 1 IN
    [lx EXCEPT !.position = p,
               !.current_char = IF p < Len(lx.code) THEN Some(lx.code[p + 1]) ELSE None]

\* a plausible slip: the range starts one too late (position + 1..end)
RECURSIVE advance_n_short(_, _)
advance_n_short(lx, n) == IF n <= 1 THEN lx ELSE advance_n_short(advance(lx), n - 1)

\* for _i in self.position..end { self.advance(); } : n = end - position calls
RECURSIVE advance_n(_, _)
advance_n(lx, n) == IF n <= 0 THEN lx ELSE advance_n(advance(lx), n - 1)

\* Lexer::skip_whitespace
RECURSIVE skip_whitespace(_)
skip_whitespace(lx) ==
    IF lx.current_char # None /\ IsWhitespace(lx.current_char[1])
    THEN skip_whitespace(advance(lx))
    ELSE lx

\* a plausible slip: the delimiter matcher is consulted before the operator matcher
lex_operator_or_delimiter_swapped(lx) ==
    LET dm == match_symbol(DELIMITERS_TRIE, lx.code, lx.position, FALSE)
        om == match_symbol(OPERATORS_TRIE, lx.code, lx.position, FALSE)
    IN  IF dm # None
        THEN [lx |-> advance_n(lx, dm[1].end - lx.position),
              token |-> Some(Token("Delimiter", dm[1].text))]
        ELSE IF om # None
        THEN [lx |-> advance_n(lx, om[1].end - lx.position),
              token |-> Some(Token("Operator", om[1].text))]
        ELSE [lx |-> lx, token |-> None]

\* a plausible slip: the cursor advances one character per symbol, not per character
lex_operator_or_delimiter_one(lx) ==
    LET om == match_symbol(OPERATORS_TRIE, lx.code, lx.position, FALSE)
        dm == match_symbol(DELIMITERS_TRIE, lx.code, lx.position, FALSE)
    IN  IF om # None
        THEN [lx |-> advance(lx), token |-> Some(Token("Operator", om[1].text))]
        ELSE IF dm # None
        THEN [lx |-> advance(lx), token |-> Some(Token("Delimiter", dm[1].text))]
        ELSE [lx |-> lx, token |-> None]

\* a plausible slip: the unmatched character is consumed here as well, so
\* that the caller's advance drops a second one
lex_operator_or_delimiter_skip(lx) ==
    LET om == match_symbol(OPERATORS_TRIE, lx.code, lx.position, FALSE)
        dm == match_symbol(DELIMITERS_TRIE, lx.code, lx.position, FALSE)
    IN  IF om # None
        THEN [lx |-> advance_n(lx, om[1].end - lx.position),
              token |-> Some(Token("Operator", om[1].text))]
        ELSE IF dm # None
        THEN [lx |-> advance_n(lx, dm[1].end - lx.position),
              token |-> Some(Token("Delimiter", dm[1].text))]
        ELSE [lx |-> advance(lx), token |-> None]

\* a plausible slip: the symbol is returned but the cursor is left where it was
lex_operator_or_delimiter_stay(lx) ==
    LET om == match_symbol(OPERATORS_TRIE, lx.code, lx.position, FALSE)
        dm == match_symbol(DELIMITERS_TRIE, lx.code, lx.position, FALSE)
    IN  IF om # None
        THEN [lx |-> lx, token |-> Some(Token("Operator", om[1].text))]
        ELSE IF dm # None
        THEN [lx |-> lx, token |-> Some(Token("Delimiter", dm[1].text))]
        ELSE [lx |-> lx, token |-> None]

\* Lexer::lex_operator_or_delimiter : the Lexer afterwards and the Option<Token>
lex_operator_or_delimiter(lx) ==
    LET om == match_symbol(OPERATORS_TRIE, lx.code, lx.position, FALSE)
        dm == match_symbol(DELIMITERS_TRIE, lx.code, lx.position, FALSE)
    IN  IF om # None
        THEN [lx |-> advance_n(lx, om[1].end - lx.position),
              token |-> Some(Token("Operator", om[1].text))]
        ELSE IF dm # None
        THEN [lx |-> advance_n(lx, dm[1].end - lx.position),
              token |-> Some(Token("Delimiter", dm[1].text))]
        ELSE [lx |-> lx, token |-> None]

\* a plausible slip: a number is a run of digits, the dot ends it
RECURSIVE lex_number_loop_digits(_, _)
lex_number_loop_digits(lx, value) ==
    IF lx.current_char # None /\ IsDigit10(lx.current_char[1])
    THEN lex_number_loop_digits(advance(lx), Append(value, lx.current_char[1]))
    ELSE [lx |-> lx, value |-> value]

\* the loop of Lexer::lex_number
RECURSIVE lex_number_loop(_, _)
lex_number_loop(lx, value) ==
    IF lx.current_char # None /\ (IsDigit10(lx.current_char[1]) \/ lx.current_char[1] = ".")
    THEN lex_number_loop(advance(lx), Append(value, lx.current_char[1]))
    ELSE [lx |-> lx, value |-> value]

\* Lexer::lex_number
lex_number(lx) ==
    LET r == lex_number_loop(lx, <<>>) IN
    [lx |-> r.lx, token |-> Token("Number", r.value)]

\* the loop of Lexer::lex_identifier_or_keyword
RECURSIVE lex_identifier_loop(_, _)
lex_identifier_loop(lx, value) ==
    IF lx.current_char # None /\
       (IsAlphanumeric(lx.current_char[1]) \/ lx.current_char[1] = "_"
                                          \/ lx.current_char[1] = "$")
    THEN lex_identifier_loop(advance(lx), Append(value, lx.current_char[1]))
    ELSE [lx |-> lx, value |-> value]

\* a plausible slip: the keyword test does not ask for a boundary
is_keyword_no_boundary(value) ==
    match_symbol(KEYWORDS_TRIE, value, 0, FALSE) # None

\* the keyword test of Lexer::lex_identifier_or_keyword, on a copy of value
is_keyword(value) ==
    match_symbol(KEYWORDS_TRIE, value, 0, TRUE) # None

\* a plausible slip: the end index of the keyword match, an index into the
\* copy of value, is taken over as the Lexer's cursor
lex_identifier_or_keyword_moving(lx) ==
    LET r == lex_identifier_loop(lx, <<>>)
        m == match_symbol(KEYWORDS_TRIE, r.value, 0, TRUE)
    IN  IF m # None
        THEN [lx |-> [r.lx EXCEPT !.position = m[1].end],
              token |-> Token("Keyword", r.value)]
        ELSE [lx |-> r.lx, token |-> Token("Identifier", r.value)]

\* Lexer::lex_identifier_or_keyword
lex_identifier_or_keyword(lx) ==
    LET r == lex_identifier_loop(lx, <<>>) IN
    [lx |-> r.lx,
     token |-> IF is_keyword(r.value)
               THEN Token("Keyword", r.value)
               ELSE Token("Identifier", r.value)]

\* a plausible slip: \n and \t are copied through like any other character
escape_verbatim(escaped_char) == escaped_char

\* the match escaped_char of Lexer::lex_string
escape(escaped_char) ==
    CASE escaped_char = "n"  -> "\n"
      [] escaped_char = "t"  -> "\t"
      [] escaped_char = "\\" -> "\\"
      [] escaped_char = "\"" -> "\""
      [] escaped_char = "'"  -> "'"
      [] OTHER -> escaped_char

\* a plausible slip: after a backslash advance() is called twice without
\* looking whether an escaped character is there
RECURSIVE lex_string_loop_blind(_, _, _)
lex_string_loop_blind(lx, quote, value) ==
    IF lx.current_char = None THEN [lx |-> lx, value |-> value]
    ELSE LET ch == lx.current_char[1] IN
         IF ch = quote
         THEN [lx |-> advance(lx), value |-> value]
         ELSE IF ch = "\\"
         THEN LET l2 == advance(lx) IN
              lex_string_loop_blind(advance(l2), quote,
                                    IF l2.current_char # None
                                    THEN Append(value, escape(l2.current_char[1]))
                                    ELSE value)
         ELSE lex_string_loop_blind(advance(lx), quote, Append(value, ch))

\* a plausible slip: a string that meets the end of input loses its content
RECURSIVE lex_string_loop_discard(_, _, _)
lex_string_loop_discard(lx, quote, value) ==
    IF lx.current_char = None THEN [lx |-> lx, value |-> <<>>]
    ELSE LET ch == lx.current_char[1] IN
         IF ch = quote
         THEN [lx |-> advance(lx), value |-> value]
         ELSE IF ch = "\\"
         THEN LET l2 == advance(lx) IN
              IF l2.current_char # None
              THEN lex_string_loop_discard(advance(l2), quote,
                                           Append(value, escape(l2.current_char[1])))
              ELSE lex_string_loop_discard(l2, quote, value)
         ELSE lex_string_loop_discard(advance(lx), quote, Append(value, ch))

\* the loop of Lexer::lex_string
RECURSIVE lex_string_loop(_, _, _)
lex_string_loop(lx, quote, value) ==
    IF lx.current_char = None THEN [lx |-> lx, value |-> value]
    ELSE LET ch == lx.current_char[1] IN
         IF ch = quote
         THEN [lx |-> advance(lx), value |-> value]
         ELSE IF ch = "\\"
         THEN LET l2 == advance(lx) IN
              IF l2.current_char # None
              THEN lex_string_loop(advance(l2), quote,
                                   Append(value, escape(l2.current_char[1])))
              ELSE lex_string_loop(l2, quote, value)
         ELSE lex_string_loop(advance(lx), quote, Append(value, ch))

\* Lexer::lex_string
lex_string(lx) ==
    LET quote == lx.current_char[1]
        r == lex_string_loop(advance(lx), quote, <<>>)
    IN  [lx |-> r.lx, token |-> Token("StringLiteral", r.value)]

\* a plausible slip: the cursor is advanced once more before EOF is returned
end_of_input_advancing(lx) ==
    [lx |-> advance(lx), token |-> EOF, start |-> lx.position]

\* the exit of the loop of Lexer::next_token: Token::EOF, Lexer untouched
end_of_input(lx) ==
    [lx |-> lx, token |-> EOF, start |-> lx.position]

\* the while let Some(ch) = self.current_char loop of Lexer::next_token, one
\* iteration per unfolding; start is the cursor at the iteration that returns
RECURSIVE next_token(_)
next_token(lx) ==
    IF lx.current_char = None
    THEN end_of_input(lx)
    ELSE LET ch == lx.current_char[1] IN
         IF IsWhitespace(ch)
         THEN next_token(skip_whitespace(lx))
         ELSE IF IsAlphabetic(ch) \/ ch = "_" \/ ch = "$"
         THEN LET r == lex_identifier_or_keyword(lx)
              IN  [lx |-> r.lx, token |-> r.token, start |-> lx.position]
         ELSE IF IsDigit10(ch)
         THEN LET r == lex_number(lx)
              IN  [lx |-> r.lx, token |-> r.token, start |-> lx.position]
         ELSE IF ch = "\"" \/ ch = "'"
         THEN LET r == lex_string(lx)
              IN  [lx |-> r.lx, token |-> r.token, start |-> lx.position]
         ELSE LET r == lex_operator_or_delimiter(lx) IN
              IF r.token # None
              THEN [lx |-> r.lx, token |-> r.token[1], start |-> lx.position]
              ELSE next_token(advance(r.lx))

\* ---------------------------------------------------------------------
\* Inputs
\* ---------------------------------------------------------------------
SeqsUpTo(S, n) == UNION {[1..k -> S] : k \in 0..n}

\* a character or two of every class next_token tells apart; the alphabets
\* of the scanners below add the characters each scanner tells apart
Alphabet == {"i", "1", "$", " ", "\"", "\\", "=", ".", "|", "@"}

\* inputs of the tests of lexer.rs and of the examples of the specification;
\* "BACKTICK" stands for the single character U+0060 (grave accent)
LexerExamples ==
    { <<"l","e","t","V","a","r">>,
      <<"l","e","t">>,
      <<"i","n","s","t","a","n","c","e","o","f">>,
      <<"$","d","o","l","l","a","r","S","i","g","n","1","2","3">>,
      <<"@"," ","#"," ","^"," ","~"," ","BACKTICK"," ","|"," ","?"," ","\\">>,
      <<"\"","h","i","\""," ","'","h","i","'"," ","\"","a","\\","n","b","\"">>,
      <<"'","\\","t","\\","\\","\\","'","\"","'">>,
      <<"x"," ","+","="," ","5",";">>,
      <<"|","=">>,
      <<"&",";">>,
      <<".","5">>,
      <<"1","2","3","a","b","c">> }

\* the characters the identifier/keyword scan tells apart, and a separator
IdentAlphabet == {"i", "n", "1", "1/2", "$", " "}

\* characters of operators and delimiters, a character of neither, a separator
SymbolAlphabet == {"=", "+", ".", "|", "@", " "}

\* the characters the string scan tells apart, and one it copies
StringAlphabet == {"\"", "'", "\\", "n", "="}

\* the characters the number scan tells apart, and a separator
NumberAlphabet == {"1", "2", ".", "i", " "}

\* the input of test_combined_input
CombinedInput ==
    <<"l","e","t"," ","x"," ","="," ","4","2",";"," ","i","f"," ","(","x"," ",">"," ","1","0",")"," ","{"," ","x"," ","+","="," ","5",";"," ","}">>

\* the input of test_edge_cases
EdgeCasesInput ==
    <<"l","e","t"," ","_"," ","="," ","0",";"," ","l","e","t"," ","$"," ","="," ","5",";"," ","l","e","t"," ","c","a","m","e","l","C","a","s","e"," ","="," ","t","r","u","e",";">>

\* the texts of a symbol list, separated by one space
RECURSIVE JoinTexts(_)
JoinTexts(l) ==
    IF l = <<>> THEN <<>>
    ELSE IF Len(l) = 1 THEN l[1]
    ELSE l[1] \o <<" ">> \o JoinTexts(Tail(l))

\* every entry of the three vocabularies alone, and each vocabulary and all
\* three together with the entries separated by whitespace
VocabularyInputs ==
    {OPERATORS[k] : k \in DOMAIN OPERATORS}
        \cup {DELIMITERS[k] : k \in DOMAIN DELIMITERS}
        \cup {KEYWORDS[k] : k \in DOMAIN KEYWORDS}
        \cup {JoinTexts(OPERATORS), JoinTexts(DELIMITERS), JoinTexts(KEYWORDS),
              JoinTexts(KEYWORDS \o OPERATORS \o DELIMITERS)}

LexerInputs ==
    SeqsUpTo(Alphabet, MaxLen)
        \cup {CombinedInput, EdgeCasesInput}
        \cup VocabularyInputs
        \cup SeqsUpTo(NumberAlphabet, MaxClassLen)
        \cup SeqsUpTo(IdentAlphabet, MaxClassLen)
        \cup SeqsUpTo(SymbolAlphabet, MaxClassLen)
        \cup SeqsUpTo(StringAlphabet, MaxClassLen)
        \cup LexerExamples

\* symbols the enumerated vocabularies are lists of
SymbolPool == { <<"=">>, <<"=", "=">>, <<"=", "=", "=">>, <<"+">>, <<"+", "=">> }

Vocabularies == SeqsUpTo(SymbolPool, MaxVocab) \cup {OPERATORS, DELIMITERS, KEYWORDS}

MatchAlphabet == {"=", "+", " ", ";", "x"}

\* inputs of the tests of symbols.rs
MatchExamples ==
    { <<"l","e","t","V","a","r">>, <<"l","e">>, <<"l","e","t">>,
      <<" ","l","e","t"," ">>, <<"i","n","s","t">>, <<"i","n",";">>,
      <<" ","=","="," ">>, <<"o","b","j",".","p","r","o","p">>,
      <<"(",".",".",".","a",")">>, <<"{","[","(">> }

MatchInputs == SeqsUpTo(MatchAlphabet, MaxCode) \cup MatchExamples

\* ---------------------------------------------------------------------
\* The Lexer and its caller
\* ---------------------------------------------------------------------
MatchIdle ==
    /\ m_vocab = <<>> /\ m_code = <<>> /\ m_start = 0
    /\ m_boundary = FALSE /\ m_result = None /\ m_pc = "idle"

\* no SymbolTrie under construction
TrieIdle == t_root = new_empty /\ t_inserted = <<>>

\* no group of Lexers
ShareIdle == s_tries = <<>> /\ s_lexers = <<>> /\ s_outputs = <<>>

\* no parse_program call
ParseIdle == p_tokens = <<>> /\ p_result = None /\ p_pc = "idle"

\* let mut lexer = Lexer::new(input);
Init ==
    /\ code \in LexerInputs
    /\ position = Lexer_new(code).position
    /\ current_char = Lexer_new(code).current_char
    /\ returned = <<>>
    /\ MatchIdle
    /\ TrieIdle
    /\ ShareIdle
    /\ ParseIdle

\* lexer.next_token(), called until it returns EOF and ExtraCalls times more,
\* and never more than Len(code) + 1 + ExtraCalls times
NextToken ==
    /\ m_pc = "idle"
    /\ Len(returned) < Len(code) + 1 + ExtraCalls
    /\ Cardinality({k \in DOMAIN returned : returned[k].token = EOF}) <= ExtraCalls
    /\ LET r == next_token([code |-> code, position |-> position,
                            current_char |-> current_char])
       IN  /\ code' = r.lx.code
           /\ position' = r.lx.position
           /\ current_char' = r.lx.current_char
           /\ returned' = Append(returned, [from |-> position, start |-> r.start,
                                            end |-> r.lx.position, token |-> r.token])
    /\ UNCHANGED match_vars
    /\ UNCHANGED trie_vars
    /\ UNCHANGED share_vars
    /\ UNCHANGED parse_vars

Next == NextToken

Spec == Init /\ [][Next]_vars

\* ---------------------------------------------------------------------
\* One match_symbol call on a trie built from a symbol list
\* ---------------------------------------------------------------------
LexerIdle ==
    /\ code = <<>> /\ position = 0 /\ current_char = None /\ returned = <<>>

MatchInit ==
    /\ m_vocab \in Vocabularies
    /\ m_code \in MatchInputs
    /\ m_start \in 0..(Len(m_code) + 1)
    /\ m_boundary \in BOOLEAN
    /\ m_result = None
    /\ m_pc = "call"
    /\ LexerIdle
    /\ TrieIdle
    /\ ShareIdle
    /\ ParseIdle

\* SymbolTrie::new(m_vocab).match_symbol(&m_code, m_start, m_boundary)
MatchSymbol ==
    /\ m_pc = "call"
    /\ m_result' = match_symbol(new(m_vocab), m_code, m_start, m_boundary)
    /\ m_pc' = "done"
    /\ UNCHANGED <<m_vocab, m_code, m_start, m_boundary>>
    /\ UNCHANGED lexer_vars
    /\ UNCHANGED trie_vars
    /\ UNCHANGED share_vars
    /\ UNCHANGED parse_vars

MatchNext == MatchSymbol

MatchSpec == MatchInit /\ [][MatchNext]_vars

\* ---------------------------------------------------------------------
\* Properties of match_symbol
\* ---------------------------------------------------------------------
\* the members of a symbol list
VocabSet(v) == {v[k] : k \in DOMAIN v}

\* s is a prefix of c[start..]
HasPrefixAt(s, c, start) ==
    /\ start + Len(s) <= Len(c)
    /\ \A k \in 1..Len(s) : c[start + k] = s[k]

\* the character after s at start is whitespace, a delimiter, or missing
EndsAtBoundary(s, c, start) ==
    \/ start + Len(s) >= Len(c)
    \/ c[start + Len(s) + 1] \in Whitespace
    \/ <<c[start + Len(s) + 1]>> \in VocabSet(DELIMITERS)

\* the result of a match is the longest member of the candidate set P,
\* with its absolute end index, and no-match exactly when P is empty
IsLongestOf(result, P, start) ==
    IF P = {}
    THEN result = None
    ELSE /\ result # None
         /\ result[1].text \in P
         /\ \A s \in P : Len(s) <= Len(result[1].text)
         /\ result[1].end = start + Len(result[1].text)

\* C1: without a boundary requirement match_symbol returns the longest
\* vocabulary member that is a prefix of input[start..], with end =
\* start + its length, and no-match exactly when no member is such a prefix.
C1_LongestMatch ==
    (m_pc = "done" /\ ~m_boundary) =>
        IsLongestOf(m_result,
                    {s \in VocabSet(m_vocab) : HasPrefixAt(s, m_code, m_start)},
                    m_start)

\* === at position 0 of the operator trie: three members are prefixes
C1_Witness ==
    /\ m_pc = "done" /\ ~m_boundary
    /\ m_vocab = OPERATORS /\ m_code = <<"=", "=", "=">> /\ m_start = 0
    /\ m_result = Some([text |-> <<"=", "=", "=">>, end |-> 3])

\* C2: with a boundary requirement only the prefixes followed by whitespace,
\* a delimiter or the end of input are candidates; the result is the longest
\* candidate, or no-match when there is none.
C2_BoundaryRule ==
    (m_pc = "done" /\ m_boundary) =>
        IsLongestOf(m_result,
                    {s \in VocabSet(m_vocab) :
                        HasPrefixAt(s, m_code, m_start) /\ EndsAtBoundary(s, m_code, m_start)},
                    m_start)

\* letVar against the keyword trie: let is complete but V is no boundary
C2_Witness ==
    /\ m_pc = "done" /\ m_boundary
    /\ m_vocab = KEYWORDS /\ m_code = <<"l","e","t","V","a","r">> /\ m_start = 0
    /\ m_result = None

\* ---------------------------------------------------------------------
\* Properties of next_token
\* ---------------------------------------------------------------------
Calls == DOMAIN returned

NonEOF(k) == returned[k].token.kind # "EOF"

Quotes == {"\"", "'"}

IdentStarts == Letters \cup {"_", "$"}

\* letter | decimal digit | _ | $
IdentCharsDecimal == Letters \cup Digits \cup {"_", "$"}

\* letter | numeric character | _ | $
IdentCharsNumeric == Letters \cup Digits \cup OtherNumeric \cup {"_", "$"}

\* the end (0-based, exclusive) of the maximal run of members of S at cursor p
RunEnd(p, S) ==
    CHOOSE e \in p..Len(code) :
        /\ \A j \in (p + 1)..e : code[j] \in S
        /\ e = Len(code) \/ code[e + 1] \notin S

\* a call started at an identifier start returned one token carrying the
\* whole maximal run of S, Keyword exactly when the run is a keyword
IdentifierScan(S) ==
    \A k \in Calls :
        LET c == returned[k] IN
        (c.from < Len(code) /\ code[c.from + 1] \in IdentStarts) =>
            /\ c.end = RunEnd(c.from, S)
            /\ c.token.text = SubSeq(code, c.from + 1, c.end)
            /\ c.token.kind \in {"Keyword", "Identifier"}
            /\ c.token.kind = "Keyword" <=> c.token.text \in VocabSet(KEYWORDS)

\* C3 as stated: the run is made of letters, decimal digits, _ and $.
C3_Original == IdentifierScan(IdentCharsDecimal)

\* C3: at a letter, _ or $ next_token returns one token carrying the whole
\* maximal run of (letter | numeric character | _ | $), where numeric is
\* char::is_numeric (any Unicode Nd/Nl/No character, not only decimal digits);
\* the token is Keyword exactly when the run equals a keyword, else Identifier.
C3_IdentifierScan == IdentifierScan(IdentCharsNumeric)

\* in + U+00BD: the keyword in is a proper prefix, the run ends on a non-decimal numeric
C3_Witness ==
    /\ code = <<"i", "n", "1/2">>
    /\ Len(returned) >= 1
    /\ returned[1].token = Token("Identifier", <<"i", "n", "1/2">>)

\* C4: a next_token() call made before the end of input strictly increases
\* the cursor, and no call decreases it.
C4_MonotonicCursor ==
    [][/\ position' >= position
       /\ position < Len(code) => position' > position]_vars

\* one call skipped whitespace, dropped @ and returned =
C4_Witness ==
    /\ code = <<" ", "@", "=">>
    /\ Len(returned) = 1
    /\ returned[1].from = 0 /\ returned[1].start = 2 /\ position = 3

\* C5: a call made with the cursor at the end of input returns EOF and
\* leaves the cursor where it is; after an EOF every later call returns EOF.
C5_EndOfInputIdempotent ==
    \A k \in Calls :
        /\ returned[k].from >= Len(code) =>
               returned[k].token = EOF /\ returned[k].end = returned[k].from
        /\ \A j \in Calls : (j < k /\ returned[j].token = EOF) => returned[k].token = EOF

\* a token, then EOF twice with the cursor staying at the end
C5_Witness ==
    /\ Len(returned) >= 3
    /\ NonEOF(1)
    /\ returned[2].token = EOF /\ returned[3].token = EOF
    /\ returned[3].from = Len(code) /\ position = Len(code)

\* C6: at most Len(code) tokens are returned before the first EOF, so the
\* call number Len(code) + 1 at the latest returns EOF.
C6_Termination ==
    /\ Cardinality({k \in Calls : NonEOF(k)}) <= Len(code)
    /\ Len(returned) > Len(code) => \E k \in 1..(Len(code) + 1) : returned[k].token = EOF

\* three one-character tokens out of three characters, then EOF
C6_Witness ==
    /\ Len(code) = 3 /\ Len(returned) = 4
    /\ NonEOF(1) /\ NonEOF(2) /\ NonEOF(3)
    /\ returned[4].token = EOF

\* C7: every returned token other than EOF has a non-empty span
\* start..end of input inside from..end of its call; an identifier, keyword,
\* number, operator or delimiter carries exactly the characters of its span,
\* a string literal spans from its opening quote; the spans of successive
\* tokens are disjoint and in input order.
C7_SourceSpan ==
    \A k \in Calls :
        LET c == returned[k] IN
        NonEOF(k) =>
            /\ c.from <= c.start /\ c.start < c.end /\ c.end <= Len(code)
            /\ c.end = IF k < Len(returned) THEN returned[k + 1].from ELSE position
            /\ IF c.token.kind = "StringLiteral"
               THEN /\ code[c.start + 1] \in Quotes
                    /\ Len(c.token.text) <= c.end - c.start - 1
               ELSE c.token.text = SubSeq(code, c.start + 1, c.end)
            /\ \A j \in Calls : (j < k /\ NonEOF(j)) => returned[j].end <= c.start

\* two tokens with skipped whitespace between their spans
C7_Witness ==
    /\ code = <<"=", " ", "=", "=">>
    /\ Len(returned) >= 2
    /\ returned[1].start = 0 /\ returned[1].end = 1
    /\ returned[2].start = 2 /\ returned[2].end = 4
    /\ returned[2].token = Token("Operator", <<"=", "=">>)

\* the members of vocabulary v that are prefixes of code at cursor p
PrefixesAt(v, p) == {s \in VocabSet(v) : HasPrefixAt(s, code, p)}

\* the characters that occur in some entry of one of the three vocabularies
VocabularyChars ==
    UNION {{s[i] : i \in DOMAIN s} :
           s \in VocabSet(OPERATORS) \cup VocabSet(DELIMITERS) \cup VocabSet(KEYWORDS)}

\* the first call returned EOF with the cursor at the end, and so did the others
OnlyEndOfInput ==
    \A k \in Calls : returned[k].token = EOF /\ returned[k].end = Len(code)

\* C8 as stated: the characters of the input are whitespace, or outside the
\* vocabularies and neither letter, digit nor quote.
C8_Original ==
    (\A p \in DOMAIN code :
        \/ code[p] \in Whitespace
        \/ code[p] \notin VocabularyChars \cup Letters \cup Digits \cup Quotes)
    => OnlyEndOfInput

\* C8: an input in which every character is whitespace, or is neither a
\* letter, _, $, decimal digit nor quote and has no operator and no
\* delimiter entry matching at its position, yields only EOF: the first call
\* returns EOF with the cursor at the end and no other token is produced.
C8_DropLaw ==
    (\A p \in DOMAIN code :
        \/ code[p] \in Whitespace
        \/ /\ code[p] \notin IdentStarts \cup Digits \cup Quotes
           /\ PrefixesAt(OPERATORS, p - 1) = {}
           /\ PrefixesAt(DELIMITERS, p - 1) = {})
    => OnlyEndOfInput

\* the input of test_unexpected_characters, lexed to its end by one call
C8_Witness ==
    /\ code = <<"@"," ","#"," ","^"," ","~"," ","BACKTICK"," ","|"," ","?"," ","\\">>
    /\ Len(returned) >= 1
    /\ returned[1].token = EOF /\ returned[1].from = 0 /\ position = 15

\* text is a longest member of the non-empty candidate set P
LongestIn(text, P) == text \in P /\ \A s \in P : Len(s) <= Len(text)

\* C9: a call started at a character that is not whitespace, letter, _,
\* $, digit or quote returns Operator(longest operator at the cursor) and
\* advances by its length when an operator matches there; when none does and
\* a delimiter matches, it returns Delimiter(text) and advances by its length.
C9_OperatorDelimiterScan ==
    \A k \in Calls :
        LET c == returned[k]
            ops == PrefixesAt(OPERATORS, c.from)
            dels == PrefixesAt(DELIMITERS, c.from)
        IN  (/\ c.from < Len(code)
             /\ code[c.from + 1] \notin Whitespace \cup IdentStarts \cup Digits \cup Quotes)
            => /\ ops # {} =>
                    /\ c.token.kind = "Operator"
                    /\ LongestIn(c.token.text, ops)
                    /\ c.end = c.from + Len(c.token.text)
               /\ (ops = {} /\ dels # {}) =>
                    /\ c.token.kind = "Delimiter"
                    /\ LongestIn(c.token.text, dels)
                    /\ c.end = c.from + Len(c.token.text)

\* .... : one Operator(...), then the lone . as a Delimiter
C9_Witness ==
    /\ code = <<".", ".", ".", ".">>
    /\ Len(returned) >= 2
    /\ returned[1].token = Token("Operator", <<".", ".", ".">>)
    /\ returned[2].token = Token("Delimiter", <<".">>)

\* the escape table of the string scan
Unescape(x) ==
    CASE x = "n" -> "\n"
      [] x = "t" -> "\t"
      [] OTHER -> x

\* the 1-based index of the first unescaped q in c at or after j, 0 if none
RECURSIVE ClosePos(_, _, _)
ClosePos(c, j, q) ==
    IF j > Len(c) THEN 0
    ELSE IF c[j] = q THEN j
    ELSE IF c[j] = "\\" THEN ClosePos(c, j + 2, q)
    ELSE ClosePos(c, j + 1, q)

\* the value of the raw content s between the quotes
RECURSIVE Decode(_)
Decode(s) ==
    IF s = <<>> THEN <<>>
    ELSE IF Head(s) = "\\"
    THEN IF Len(s) >= 2
         THEN <<Unescape(s[2])>> \o Decode(SubSeq(s, 3, Len(s)))
         ELSE <<>>
    ELSE <<Head(s)>> \o Decode(Tail(s))

\* C10: a call started at a quote returns one StringLiteral; when the same
\* quote occurs unescaped later, the scan ends just after its first such
\* occurrence and the value is the decoded content between the two quotes
\* (the other quote is content, \x decodes by the escape table).
C10_StringScan ==
    \A k \in Calls :
        LET c == returned[k] IN
        (c.from < Len(code) /\ code[c.from + 1] \in Quotes) =>
            LET q == code[c.from + 1]
                close == ClosePos(code, c.from + 2, q)
            IN  /\ c.token.kind = "StringLiteral"
                /\ close # 0 =>
                      /\ c.end = close
                      /\ c.token.text = Decode(SubSeq(code, c.from + 2, close - 1))

\* a single-quoted string holding every kind of escape, an escaped single
\* quote and a double quote
C10_Witness ==
    /\ code = <<"'","\\","t","\\","\\","\\","'","\"","'">>
    /\ Len(returned) >= 1
    /\ returned[1].token = Token("StringLiteral", <<"\t", "\\", "'", "\"">>)
    /\ returned[1].end = 9

\* C11: a call started at a quote that has no unescaped matching quote after
\* it returns a StringLiteral holding the decoded content up to the end of
\* input (a backslash that ends the input adds nothing), leaves the cursor
\* at the end of input, and the next call returns EOF.
C11_TruncatedString ==
    \A k \in Calls :
        LET c == returned[k] IN
        (/\ c.from < Len(code)
         /\ code[c.from + 1] \in Quotes
         /\ ClosePos(code, c.from + 2, code[c.from + 1]) = 0)
        => /\ c.token = Token("StringLiteral",
                              Decode(SubSeq(code, c.from + 2, Len(code))))
           /\ c.end = Len(code)
           /\ k < Len(returned) => returned[k + 1].token = EOF

\* an unterminated string whose last character is a backslash
C11_Witness ==
    /\ code = <<"\"", "n", "\\">>
    /\ Len(returned) >= 2
    /\ returned[1].token = Token("StringLiteral", <<"n">>)
    /\ returned[1].end = 3
    /\ returned[2].token = EOF

\* C12: a call started at a decimal digit returns one Number whose text is
\* the whole maximal run of (decimal digit | dot) at the cursor, however many
\* dots it holds and also when it ends on a dot.
C12_NumberScan ==
    \A k \in Calls :
        LET c == returned[k] IN
        (c.from < Len(code) /\ code[c.from + 1] \in Digits) =>
            /\ c.end = RunEnd(c.from, Digits \cup {"."})
            /\ c.token = Token("Number", SubSeq(code, c.from + 1, c.end))

\* 1..2 is one Number
C12_Witness ==
    /\ code = <<"1", ".", ".", "2">>
    /\ Len(returned) >= 2
    /\ returned[1].token = Token("Number", <<"1", ".", ".", "2">>)
    /\ returned[2].token = EOF

\* the tokens test_combined_input expects
CombinedTokens ==
    << Token("Keyword", <<"l","e","t">>),
       Token("Identifier", <<"x">>),
       Token("Operator", <<"=">>),
       Token("Number", <<"4","2">>),
       Token("Delimiter", <<";">>),
       Token("Keyword", <<"i","f">>),
       Token("Delimiter", <<"(">>),
       Token("Identifier", <<"x">>),
       Token("Operator", <<">">>),
       Token("Number", <<"1","0">>),
       Token("Delimiter", <<")">>),
       Token("Delimiter", <<"{">>),
       Token("Identifier", <<"x">>),
       Token("Operator", <<"+","=">>),
       Token("Number", <<"5">>),
       Token("Delimiter", <<";">>),
       Token("Delimiter", <<"}">>),
       EOF >>

\* the tokens test_edge_cases expects
EdgeCasesTokens ==
    << Token("Keyword", <<"l","e","t">>),
       Token("Identifier", <<"_">>),
       Token("Operator", <<"=">>),
       Token("Number", <<"0">>),
       Token("Delimiter", <<";">>),
       Token("Keyword", <<"l","e","t">>),
       Token("Identifier", <<"$">>),
       Token("Operator", <<"=">>),
       Token("Number", <<"5">>),
       Token("Delimiter", <<";">>),
       Token("Keyword", <<"l","e","t">>),
       Token("Identifier", <<"c","a","m","e","l","C","a","s","e">>),
       Token("Operator", <<"=">>),
       Token("Keyword", <<"t","r","u","e">>),
       Token("Delimiter", <<";">>),
       EOF >>

\* the first calls on input returned the first tokens of expected, in order
LexesTo(input, expected) ==
    code = input =>
        \A k \in Calls : k <= Len(expected) => returned[k].token = expected[k]

\* C13: tokens come back in source order, no token starts on whitespace, and
\* tokens need no whitespace between them: the inputs of test_combined_input
\* and test_edge_cases lex to exactly the token sequences listed there,
\* EOF included.
C13_TokenStream ==
    /\ LexesTo(CombinedInput, CombinedTokens)
    /\ LexesTo(EdgeCasesInput, EdgeCasesTokens)
    /\ \A k \in Calls :
          NonEOF(k) =>
              /\ code[returned[k].start + 1] \notin Whitespace
              /\ \A j \in Calls :
                    (j < k /\ NonEOF(j)) => returned[j].start < returned[k].start

\* the combined input lexed to its end: 17 tokens, then EOF
C13_Witness ==
    /\ code = CombinedInput
    /\ Len(returned) = Len(CombinedTokens)
    /\ returned[14].token = Token("Operator", <<"+", "=">>)
    /\ returned[14].start = returned[13].end + 1
    /\ returned[15].start = returned[14].end + 1
    /\ returned[16].start = returned[15].end
    /\ returned[18].token = EOF

\* the tokens of kind for the entries of symbol list v
TokensOf(kind, v) == [k \in DOMAIN v |-> Token(kind, v[k])]

\* entry lists and the input each is written as
RoundTripCases ==
    LET lists == {<<Token("Operator", OPERATORS[k])>> : k \in DOMAIN OPERATORS}
                 \cup {<<Token("Delimiter", DELIMITERS[k])>> : k \in DOMAIN DELIMITERS}
                 \cup {<<Token("Keyword", KEYWORDS[k])>> : k \in DOMAIN KEYWORDS}
                 \cup {TokensOf("Operator", OPERATORS),
                       TokensOf("Delimiter", DELIMITERS),
                       TokensOf("Keyword", KEYWORDS),
                       TokensOf("Keyword", KEYWORDS) \o TokensOf("Operator", OPERATORS)
                           \o TokensOf("Delimiter", DELIMITERS)}
    IN  {[input |-> JoinTexts([k \in DOMAIN l |-> l[k].text]),
          tokens |-> l \o <<EOF>>] : l \in lists}

\* C14: an input made of one vocabulary entry, or of entries separated by
\* whitespace, lexes to one token per entry with the entry's text and the
\* kind of its vocabulary, followed by EOF.
C14_VocabularyRoundTrip ==
    \A c \in RoundTripCases : LexesTo(c.input, c.tokens)

\* all 23 operators separated by spaces, lexed to the end
C14_Witness ==
    /\ code = JoinTexts(OPERATORS)
    /\ Len(returned) = Len(OPERATORS) + 1
    /\ returned[22].token = Token("Operator", <<"=", "=", "=">>)
    /\ returned[23].token = Token("Operator", <<".", ".", ".">>)
    /\ returned[24].token = EOF

\* the character at cursor p starts no token: it is neither whitespace nor
\* the start of an identifier, number or string, and no operator and no
\* delimiter matches there
Droppable(p) ==
    /\ code[p + 1] \notin Whitespace \cup IdentStarts \cup Digits \cup Quotes
    /\ PrefixesAt(OPERATORS, p) = {}
    /\ PrefixesAt(DELIMITERS, p) = {}

\* C17: within one call the cursor passes only whitespace and characters
\* that start no token, one character at a time: the call returns at the
\* first position at or after its start that starts a token (a position
\* right behind a dropped character included), and returns EOF only when
\* there is none.  A lone | or & is dropped alone.
C17_DropOne ==
    \A k \in Calls :
        LET c == returned[k] IN
        /\ c.from <= c.start /\ c.start <= Len(code)
        /\ \A p \in c.from..(c.start - 1) : code[p + 1] \in Whitespace \/ Droppable(p)
        /\ c.start < Len(code) =>
              /\ code[c.start + 1] \notin Whitespace
              /\ ~Droppable(c.start)
              /\ NonEOF(k)
        /\ c.start = Len(code) => c.token = EOF

\* |= : the | is dropped alone and the same call returns Operator(=)
C17_Witness ==
    /\ code = <<"|", "=">>
    /\ Len(returned) >= 1
    /\ returned[1] = [from |-> 0, start |-> 1, end |-> 2,
                      token |-> Token("Operator", <<"=">>)]

\* the tokens and cursors of n next_token() calls in a row on Lexer lx
RECURSIVE TokensOfLexer(_, _)
TokensOfLexer(lx, n) ==
    IF n = 0 THEN <<>>
    ELSE LET r == next_token(lx)
         IN  <<[token |-> r.token, end |-> r.lx.position]>> \o TokensOfLexer(r.lx, n - 1)

\* C18: for every cursor p a call started at, the tokens returned from
\* there on are the tokens a fresh Lexer on input[p..] returns, and the
\* cursor after each is the fresh Lexer's cursor plus p.
C18_CursorIsTheState ==
    \A k \in Calls :
        LET p == returned[k].from
            fresh == TokensOfLexer(Lexer_new(SubSeq(code, p + 1, Len(code))),
                                   Len(returned) - k + 1)
        IN  \A j \in DOMAIN fresh :
                /\ returned[k + j - 1].token = fresh[j].token
                /\ returned[k + j - 1].end = p + fresh[j].end

\* = == lexed to its end: the calls at cursors 1 and 4 continue as fresh
\* Lexers on the suffixes would
C18_Witness ==
    /\ code = <<"=", " ", "=", "=">>
    /\ Len(returned) = 3
    /\ returned[2].from = 1 /\ returned[2].end = 4
    /\ returned[2].token = Token("Operator", <<"=", "=">>)
    /\ returned[3].from = 4 /\ returned[3].token = EOF

\* C20: a next_token() call leaves the input as it is and changes only the
\* cursor, the cached current character staying the character at the cursor
\* (none at the end); after an identifier or keyword is returned the cursor
\* is at the end of the scanned run, whether or not the keyword test matched.
C20_Frame ==
    [][/\ code' = code
       /\ current_char' = IF position' < Len(code) THEN Some(code[position' + 1]) ELSE None
       /\ LET c == returned'[Len(returned')] IN
          /\ returned' = Append(returned, c)
          /\ c.token.kind \in {"Keyword", "Identifier"} =>
                position' = c.start + Len(c.token.text)]_vars

\* the keyword in behind a space: the cursor ends at 3 = 1 + 2
C20_Witness ==
    /\ code = <<" ", "i", "n", " ">>
    /\ Len(returned) = 1
    /\ returned[1].token = Token("Keyword", <<"i", "n">>)
    /\ returned[1].start = 1
    /\ position = 3 /\ current_char = Some(" ")

\* ---------------------------------------------------------------------
\* The construction of a SymbolTrie, one insert at a time
\* ---------------------------------------------------------------------
\* symbols inserted: prefixes of one another in both directions, and unrelated ones
TriePool == SymbolPool \cup { <<"i", "n">>, <<"i", "n", "s">> }

\* let mut root = Self::new_empty();
TrieInit ==
    /\ t_root = new_empty
    /\ t_inserted = <<>>
    /\ LexerIdle
    /\ MatchIdle
    /\ ShareIdle
    /\ ParseIdle

\* root.insert(symbol), one iteration of the loop of SymbolTrie::new
Insert ==
    /\ Len(t_inserted) < MaxInserts
    /\ \E symbol \in TriePool :
          /\ t_root' = insert(t_root, symbol)
          /\ t_inserted' = Append(t_inserted, symbol)
    /\ UNCHANGED lexer_vars
    /\ UNCHANGED match_vars
    /\ UNCHANGED share_vars
    /\ UNCHANGED parse_vars

TrieNext == Insert

TrieSpec == TrieInit /\ [][TrieNext]_vars

\* the characters of the pool symbols
TrieChars == UNION {{s[i] : i \in DOMAIN s} : s \in TriePool}

\* every path a trie of pool symbols could hold, and the paths one edge longer
TriePaths == SeqsUpTo(TrieChars, 4)

\* the node the path s leads to from node, if the edges exist
RECURSIVE Walk(_, _)
Walk(node, s) ==
    IF s = <<>> THEN Some(node)
    ELSE IF Head(s) \in DOMAIN node.children
    THEN Walk(node.children[Head(s)], Tail(s))
    ELSE None

\* the path s exists in the trie and its node is flagged complete
Complete(root, s) == Walk(root, s) # None /\ Walk(root, s)[1].is_last

\* s is a prefix of t
IsPrefix(s, t) == Len(s) <= Len(t) /\ SubSeq(t, 1, Len(s)) = s

\* the characters on the edges of the trie below node
RECURSIVE EdgeChars(_)
EdgeChars(node) ==
    DOMAIN node.children \cup UNION {EdgeChars(node.children[ch]) : ch \in DOMAIN node.children}

\* the trie holds exactly the symbols of V: the complete paths are the
\* members of V, the paths below the root are the prefixes of members of V
HoldsExactly(root, V) ==
    /\ EdgeChars(root) \subseteq TrieChars
    /\ \A s \in TriePaths :
          /\ Complete(root, s) <=> s \in V
          /\ Walk(root, s) # None <=> (s = <<>> \/ \E t \in V : IsPrefix(s, t))

\* C19: after any sequence of insert calls, duplicates included, the trie is
\* the one SymbolTrie::new builds from that list, a path is complete exactly
\* when it spells an inserted symbol and exists exactly when it is a prefix
\* of one; an insert removes no path and clears no complete flag.
C19_TrieConstruction ==
    /\ [](/\ t_root = new(t_inserted)
          /\ HoldsExactly(t_root, VocabSet(t_inserted)))
    /\ [][\A s \in TriePaths :
              /\ Walk(t_root, s) # None => Walk(t_root', s) # None
              /\ Complete(t_root, s) => Complete(t_root', s)]_vars

\* == then = then == again: the prefix and the duplicate leave both recognised
C19_Witness ==
    /\ t_inserted = << <<"=", "=">>, <<"=">>, <<"=", "=">> >>
    /\ Complete(t_root, <<"=">>)
    /\ Complete(t_root, <<"=", "=">>)
    /\ ~Complete(t_root, <<"=", "=", "=">>)

\* ---------------------------------------------------------------------
\* Several Lexers over the three static tries
\* ---------------------------------------------------------------------
TrieNames == {"operators", "delimiters", "keywords"}

\* the symbol list the closure of each static hands to SymbolTrie::new
symbols_of(name) ==
    CASE name = "operators"  -> OPERATORS
      [] name = "delimiters" -> DELIMITERS
      [] name = "keywords"   -> KEYWORDS

\* LazyLock::new(closure): nothing built yet
LazyLock_new == [value |-> None, builds |-> 0]

\* the dereference of a static: the closure runs on the first one only
force(tries, name) ==
    IF tries[name].value = None
    THEN [tries EXCEPT ![name] = [value |-> Some(new(symbols_of(name))),
                                  builds |-> @.builds + 1]]
    ELSE tries

\* the statics one next_token() call on lx dereferences: KEYWORDS_TRIE in the
\* identifier scan, OPERATORS_TRIE and, when no operator matches,
\* DELIMITERS_TRIE in lex_operator_or_delimiter
RECURSIVE touched(_)
touched(lx) ==
    IF lx.current_char = None THEN {}
    ELSE LET ch == lx.current_char[1] IN
         IF IsWhitespace(ch) THEN touched(skip_whitespace(lx))
         ELSE IF IsAlphabetic(ch) \/ ch = "_" \/ ch = "$" THEN {"keywords"}
         ELSE IF IsDigit10(ch) \/ ch = "\"" \/ ch = "'" THEN {}
         ELSE LET r == lex_operator_or_delimiter(lx) IN
              IF r.token # None
              THEN IF r.token[1].kind = "Operator"
                   THEN {"operators"}
                   ELSE {"operators", "delimiters"}
              ELSE {"operators", "delimiters"} \cup touched(advance(r.lx))

\* the dereferences of one call, in any order
force_all(tries, names) ==
    LET t1 == IF "operators" \in names THEN force(tries, "operators") ELSE tries
        t2 == IF "delimiters" \in names THEN force(t1, "delimiters") ELSE t1
    IN  IF "keywords" \in names THEN force(t2, "keywords") ELSE t2

\* a plausible slip: the cursor is a static too, one for all Lexers
lexer_call_shared(tries, lexers, i) ==
    LET r == next_token(lexers[i]) IN
    [tries |-> force_all(tries, touched(lexers[i])),
     lexers |-> [j \in DOMAIN lexers |->
                    IF j = i THEN r.lx
                    ELSE [lexers[j] EXCEPT
                            !.position = r.lx.position,
                            !.current_char = IF r.lx.position < Len(lexers[j].code)
                                             THEN Some(lexers[j].code[r.lx.position + 1])
                                             ELSE None]],
     token |-> r.token]

\* lexers[i].next_token() : &mut self on one Lexer, & on the statics
lexer_call(tries, lexers, i) ==
    LET r == next_token(lexers[i]) IN
    [tries |-> force_all(tries, touched(lexers[i])),
     lexers |-> [lexers EXCEPT ![i] = r.lx],
     token |-> r.token]

\* an identifier and an operator; the example adds a separator and a delimiter
ShareAlphabet == {"i", "="}

ShareInputs == SeqsUpTo(ShareAlphabet, MaxShareLen) \cup { <<"i", "=", " ", ";">> }

\* the statics before their first use, and NLexers fresh Lexers
ShareInit ==
    /\ s_tries = [name \in TrieNames |-> LazyLock_new]
    /\ s_lexers \in [1..NLexers -> {Lexer_new(c) : c \in ShareInputs}]
    /\ s_outputs = [i \in 1..NLexers |-> <<>>]
    /\ LexerIdle
    /\ MatchIdle
    /\ TrieIdle
    /\ ParseIdle

\* one of the Lexers that has not returned EOF yet makes its next call
ShareNextToken ==
    /\ \E i \in 1..NLexers :
          /\ Len(s_outputs[i]) <= Len(s_lexers[i].code)
          /\ \A k \in DOMAIN s_outputs[i] : s_outputs[i][k] # EOF
          /\ LET r == lexer_call(s_tries, s_lexers, i)
             IN  /\ s_tries' = r.tries
                 /\ s_lexers' = r.lexers
                 /\ s_outputs' = [s_outputs EXCEPT ![i] = Append(@, r.token)]
    /\ UNCHANGED lexer_vars
    /\ UNCHANGED match_vars
    /\ UNCHANGED trie_vars
    /\ UNCHANGED parse_vars

ShareNext == ShareNextToken

ShareSpec == ShareInit /\ [][ShareNext]_vars

\* the trie SymbolTrie::new builds from the vocabulary of a static
BuiltTrie(name) ==
    CASE name = "operators"  -> OPERATORS_TRIE
      [] name = "delimiters" -> DELIMITERS_TRIE
      [] name = "keywords"   -> KEYWORDS_TRIE

\* the first n tokens a Lexer returns when it runs alone on input
TokensAlone(input, n) ==
    LET run == TokensOfLexer(Lexer_new(input), n)
    IN  [k \in DOMAIN run |-> run[k].token]

Get(tokens, index) == IF index < Len(tokens) THEN Some(tokens[index + 1]) ELSE None

\* ASTNode::Literal / ASTNode::Identifier / ASTNode::VariableDeclaration
Literal(value) == [type |-> "Literal", value |-> value]
Identifier(name) == [type |-> "Identifier", value |-> name]
VariableDeclaration(identifier, value) ==
    [type |-> "VariableDeclaration", identifier |-> identifier, value |-> value]

\* a panic!(...) of the parser, index where it was left
Panic(message, index) == [panic |-> TRUE, message |-> message, node |-> None, index |-> index]

\* a node returned with *index as the call leaves it
Parsed(node, index) == [panic |-> FALSE, message |-> "", node |-> Some(node), index |-> index]

\* ASTNode::parse_expression ; Token::Literal is the variant ast.rs names
parse_expression(tokens, index) ==
    LET t == Get(tokens, index) IN
    IF t # None /\ t[1].kind = "Literal"
    THEN Parsed(Literal(t[1].text), index + 1)
    ELSE IF t # None /\ t[1].kind = "Identifier"
    THEN Parsed(Identifier(t[1].text), index + 1)
    ELSE Panic("Unsupported expression at index", index)

\* ASTNode::parse_statement
parse_statement(tokens, index) ==
    LET t0 == Get(tokens, index) IN
    IF t0 # None /\ t0[1] = Token("Keyword", <<"l", "e", "t">>)
    THEN LET t1 == Get(tokens, index + 1) IN
         IF ~(t1 # None /\ t1[1].kind = "Identifier")
         THEN Panic("Expected identifier after 'let'", index + 1)
         ELSE LET t2 == Get(tokens, index + 2) IN
              IF ~(t2 # None /\ t2[1] = Token("Operator", <<"=">>))
              THEN Panic("Expected '=' after variable name", index + 2)
              ELSE LET value == parse_expression(tokens, index + 3) IN
                   IF value.panic THEN value
                   ELSE LET t3 == Get(tokens, value.index)
                            next == IF t3 # None /\ t3[1] = Token("Delimiter", <<";">>)
                                    THEN value.index + 1
                                    ELSE value.index
                        IN  Parsed(VariableDeclaration(t1[1].text, value.node[1]), next)
    ELSE Panic("Unsupported statement or token", index)

\* the while index < tokens.len() loop of ASTNode::parse_program, one
\* iteration per unfolding; steps records *index before and after each
\* parse_statement call
RECURSIVE parse_program_loop(_, _, _, _)
parse_program_loop(tokens, index, nodes, steps) ==
    IF ~(index < Len(tokens))
    THEN [panic |-> FALSE, message |-> "", nodes |-> nodes, steps |-> steps]
    ELSE LET statement == parse_statement(tokens, index) IN
         IF statement.panic
         THEN [panic |-> TRUE, message |-> statement.message, nodes |-> nodes, steps |-> steps]
         ELSE LET nodes2 == Append(nodes, statement.node[1])
                  steps2 == Append(steps, [from |-> index, to |-> statement.index])
              IN  IF Get(tokens, statement.index) = Some(EOF)
                  THEN [panic |-> FALSE, message |-> "", nodes |-> nodes2, steps |-> steps2]
                  ELSE parse_program_loop(tokens, statement.index, nodes2, steps2)

\* ASTNode::parse_program : Program(nodes), or the panic
parse_program(tokens) == parse_program_loop(tokens, 0, <<>>, <<>>)

\* the tokens the parser tells apart
LetToken == Token("Keyword", <<"l", "e", "t">>)
EqToken == Token("Operator", <<"=">>)
SemiToken == Token("Delimiter", <<";">>)
ParserTokens ==
    {LetToken, Token("Identifier", <<"x">>), EqToken,
     Token("Literal", <<"4", "2">>), SemiToken, EOF}

\* let name = value, with or without the trailing ;
StatementForms ==
    [name : {<<"x">>, <<"y">>},
     value : {Token("Literal", <<"4", "2">>), Token("Identifier", <<"y">>)},
     semi : BOOLEAN]

\* the tokens of one statement
StatementTokens(s) ==
    <<LetToken, Token("Identifier", s.name), EqToken, s.value>>
        \o (IF s.semi THEN <<SemiToken>> ELSE <<>>)

\* the tokens of a list of statements
RECURSIVE ProgramTokens(_)
ProgramTokens(l) ==
    IF l = <<>> THEN <<>> ELSE StatementTokens(Head(l)) \o ProgramTokens(Tail(l))

StatementLists == SeqsUpTo(StatementForms, MaxStatements)

\* the end of a token sequence: nothing, or the EOF the lexer ends with
Tails == {<<>>, <<EOF>>}

\* statement lists with either end, and arbitrary short token sequences
ParserInputs ==
    {ProgramTokens(l) \o tail : l \in StatementLists, tail \in Tails}
        \cup SeqsUpTo(ParserTokens, MaxTokens)

ParseInit ==
    /\ p_tokens \in ParserInputs
    /\ p_result = None
    /\ p_pc = "call"
    /\ LexerIdle
    /\ MatchIdle
    /\ TrieIdle
    /\ ShareIdle

\* ASTNode::parse_program(&p_tokens)
Parse ==
    /\ p_pc = "call"
    /\ p_result' = Some(parse_program(p_tokens))
    /\ p_pc' = "done"
    /\ UNCHANGED p_tokens
    /\ UNCHANGED lexer_vars
    /\ UNCHANGED match_vars
    /\ UNCHANGED trie_vars
    /\ UNCHANGED share_vars

ParseNext == Parse

ParseSpec == ParseInit /\ [][ParseNext]_vars

\* the declaration a statement stands for
DeclarationOf(s) ==
    VariableDeclaration(s.name,
                        IF s.value.kind = "Literal"
                        THEN Literal(s.value.text)
                        ELSE Identifier(s.value.text))

\* C16: for a token sequence made of let statements, ended by nothing or by
\* EOF, parse_program returns Program with the declaration of each statement
\* in order, and each parse_statement call moved the index forward.
C16_ParseProgram ==
    p_pc = "done" =>
        \A l \in StatementLists : \A tail \in Tails :
            p_tokens = ProgramTokens(l) \o tail =>
                /\ ~p_result[1].panic
                /\ p_result[1].nodes = [k \in DOMAIN l |-> DeclarationOf(l[k])]
                /\ \A k \in DOMAIN p_result[1].steps :
                      p_result[1].steps[k].from < p_result[1].steps[k].to

\* C21: the text of every Number token begins with a decimal digit, the
\* character the call returned at, and the text of every Identifier and
\* Keyword token begins with a letter, _ or $; so a number never begins
\* with a dot: .5 lexes as Delimiter(.) then Number(5), and 123abc as
\* Number(123) then Identifier(abc).
C21_KindByFirstCharacter ==
    /\ \A k \in Calls :
          LET c == returned[k] IN
          /\ c.token.kind = "Number" =>
                /\ c.token.text # <<>>
                /\ c.token.text[1] \in Digits
                /\ c.token.text[1] = code[c.start + 1]
          /\ c.token.kind \in {"Identifier", "Keyword"} =>
                /\ c.token.text # <<>>
                /\ c.token.text[1] \in IdentStarts
                /\ c.token.text[1] = code[c.start + 1]
    /\ LexesTo(<<".", "5">>,
               << Token("Delimiter", <<".">>), Token("Number", <<"5">>), EOF >>)
    /\ LexesTo(<<"1", "2", "3", "a", "b", "c">>,
               << Token("Number", <<"1", "2", "3">>),
                  Token("Identifier", <<"a", "b", "c">>), EOF >>)

\* .5 lexed to its end: the dot is a delimiter of its own
C21_Witness ==
    /\ code = <<".", "5">>
    /\ Len(returned) = 3
    /\ returned[1].token = Token("Delimiter", <<".">>)
    /\ returned[2].token = Token("Number", <<"5">>)
    /\ returned[3].token = EOF

\* C22: in both boundary modes and for every start, match_symbol returns
\* no-match when start is at or past the end of the input, and a returned
\* (text, end) has start < end <= length of the input, text a member of
\* the vocabulary and text = input[start..end].
C22_MatchWellFormed ==
    m_pc = "done" =>
        /\ m_start >= Len(m_code) => m_result = None
        /\ m_result # None =>
              /\ m_start < m_result[1].end
              /\ m_result[1].end <= Len(m_code)
              /\ m_result[1].text \in VocabSet(m_vocab)
              /\ m_result[1].text = SubSeq(m_code, m_start + 1, m_result[1].end)

\* test_code_with_dot: the delimiter . at start 3 of obj.prop, end 4
C22_Witness ==
    /\ m_pc = "done"
    /\ m_vocab = DELIMITERS /\ m_code = <<"o","b","j",".","p","r","o","p">>
    /\ m_start = 3
    /\ m_result = Some([text |-> <<".">>, end |-> 4])

\* C23: after Lexer::new and after every next_token() call the cursor is
\* within 0..length(code) and current_char is the character at the cursor,
\* none exactly at the end; each call's cursors from, start and end are in
\* order within that range.  advance() adds one to the cursor and nothing
\* takes from it, so an advance() made at the end of the input, by a call
\* or inside one, would leave the cursor past the end for good.
C23_CursorRepresentation ==
    /\ position \in 0..Len(code)
    /\ current_char = IF position < Len(code) THEN Some(code[position + 1]) ELSE None
    /\ current_char = None <=> position = Len(code)
    /\ \A k \in Calls :
          /\ 0 <= returned[k].from
          /\ returned[k].from <= returned[k].start
          /\ returned[k].start <= returned[k].end
          /\ returned[k].end <= Len(code)
    /\ returned # <<>> => position = returned[Len(returned)].end

\* a string cut off right behind a backslash: the cursor stops at the end
C23_Witness ==
    /\ code = <<"\"", "=", "\\">>
    /\ Len(returned) = 1
    /\ returned[1].token = Token("StringLiteral", <<"=">>)
    /\ position = 3 /\ current_char = None

====
